---- MODULE Spec2Model ----
(***************************************************************************)
(* Model of tools/tokencount/tokencount.py: a linear script that creates   *)
(* a cache directory, primes it with a symbolic link named by the SHA-1 of *)
(* the vocabulary URL, then counts the tokens of standard input with the   *)
(* tiktoken library.  Several invocations run against one file system.     *)
(* Paths are sequences of components; the file system is the set of nodes  *)
(* the script can observe: the script directory, `cache`, the entries of   *)
(* `cache` and the vocabulary file.                                        *)
(***************************************************************************)
EXTENDS Integers, Sequences, FiniteSets, TLC

\* ---------------------------------------------------------------- bounds
MaxProcs == 2
MaxTokens == 1

Procs == 1..MaxProcs

\* ------------------------------------------------------- program constants
script_dir == <<"tool">>
cache_dir == script_dir \o <<"cache">>
target_path == <<".", "cl100k_base.tiktoken">>
VocabName == "cl100k_base.tiktoken"
UpTarget == <<"..", "cl100k_base.tiktoken">>

\* ------------------------------------------------------ the cache key
\* line 12: the URL, as the sequence of its characters
blobpath == <<
  "h", "t", "t", "p", "s", ":", "/", "/", "o", "p", "e", "n", "a", "i",
  "p", "u", "b", "l", "i", "c", ".", "b", "l", "o", "b", ".", "c", "o",
  "r", "e", ".", "w", "i", "n", "d", "o", "w", "s", ".", "n", "e", "t",
  "/", "e", "n", "c", "o", "d", "i", "n", "g", "s", "/", "c", "l", "1",
  "0", "0", "k", "_", "b", "a", "s", "e", ".", "t", "i", "k", "t", "o",
  "k", "e", "n" >>

\* ASCII codes of the characters a URL is written with
Digits == <<"0", "1", "2", "3", "4", "5", "6", "7", "8", "9">>
Lower == <<"a", "b", "c", "d", "e", "f", "g", "h", "i", "j", "k", "l", "m",
           "n", "o", "p", "q", "r", "s", "t", "u", "v", "w", "x", "y", "z">>
Punct == <<"-", ".", "/">>

IndexOf(c, tbl) == CHOOSE k \in 1..Len(tbl) : tbl[k] = c

AsciiCode(c) ==
  IF \E k \in 1..Len(Digits) : Digits[k] = c THEN 47 + IndexOf(c, Digits)
  ELSE IF \E k \in 1..Len(Lower) : Lower[k] = c THEN 96 + IndexOf(c, Lower)
  ELSE IF \E k \in 1..Len(Punct) : Punct[k] = c THEN 44 + IndexOf(c, Punct)
  ELSE IF c = ":" THEN 58
  ELSE 95  \* the underscore

\* str.encode(): the UTF-8 bytes of a string of ASCII characters
EncodeUtf8(s) == [i \in 1..Len(s) |-> AsciiCode(s[i])]

\* bitwise operations on 16-bit halves; a 32-bit word is <<high, low>>
RECURSIVE And16(_, _)
And16(a, b) ==
  IF a = 0 \/ b = 0 THEN 0
  ELSE (a % 2) * (b % 2) + 2 * And16(a \div 2, b \div 2)

RECURSIVE Xor16(_, _)
Xor16(a, b) ==
  IF a = 0 THEN b
  ELSE IF b = 0 THEN a
  ELSE ((a + b) % 2) + 2 * Xor16(a \div 2, b \div 2)

AndW(x, y) == <<And16(x[1], y[1]), And16(x[2], y[2])>>
XorW(x, y) == <<Xor16(x[1], y[1]), Xor16(x[2], y[2])>>
OrW(x, y) == <<x[1] + y[1] - And16(x[1], y[1]), x[2] + y[2] - And16(x[2], y[2])>>
NotW(x) == <<65535 - x[1], 65535 - x[2]>>

\* addition modulo 2^32
AddW(x, y) ==
  LET lo == x[2] + y[2]
      hi == x[1] + y[1] + (lo \div 65536)
  IN <<hi % 65536, lo % 65536>>

\* rotation to the left by k bits, 0 < k < 16
RotlSmall(x, k) ==
  LET m == 2 ^ (16 - k)
  IN <<(x[1] % m) * (2 ^ k) + (x[2] \div m), (x[2] % m) * (2 ^ k) + (x[1] \div m)>>

Rotl(x, k) == IF k < 16 THEN RotlSmall(x, k) ELSE RotlSmall(<<x[2], x[1]>>, k - 16)

\* SHA-1 padding: 0x80, zeros to 56 modulo 64, the bit length on 8 bytes
RECURSIVE Zeros(_)
Zeros(n) == IF n = 0 THEN <<>> ELSE <<0>> \o Zeros(n - 1)

Sha1Pad(m) ==
  LET bits == 8 * Len(m)
      z == (119 - (Len(m) % 64)) % 64
  IN m \o <<128>> \o Zeros(z) \o <<0, 0, 0, 0, 0, (bits \div 65536) % 256,
                                   (bits \div 256) % 256, bits % 256>>

\* the sixteen big-endian words of block b (from 0) of the padded message
BlockWords(m, b) ==
  [i \in 1..16 |->
     LET o == 64 * b + 4 * (i - 1)
     IN <<256 * m[o + 1] + m[o + 2], 256 * m[o + 3] + m[o + 4]>>]

\* the message schedule: eighty words
RECURSIVE Schedule(_)
Schedule(w) ==
  IF Len(w) = 80 THEN w
  ELSE LET t == Len(w) + 1
       IN Schedule(Append(w, Rotl(XorW(XorW(w[t - 3], w[t - 8]),
                                       XorW(w[t - 14], w[t - 16])), 1)))

Sha1F(t, b, c, d) ==
  IF t < 20 THEN OrW(AndW(b, c), AndW(NotW(b), d))
  ELSE IF t < 40 THEN XorW(XorW(b, c), d)
  ELSE IF t < 60 THEN OrW(OrW(AndW(b, c), AndW(b, d)), AndW(c, d))
  ELSE XorW(XorW(b, c), d)

Sha1K(t) ==
  IF t < 20 THEN <<23170, 31129>>
  ELSE IF t < 40 THEN <<28377, 60321>>
  ELSE IF t < 60 THEN <<36635, 48348>>
  ELSE <<51810, 49622>>

\* round t (from 0) on the working variables s = <<a, b, c, d, e>>
Sha1Round(s, wt, t) ==
  <<AddW(AddW(AddW(Rotl(s[1], 5), Sha1F(t, s[2], s[3], s[4])),
              AddW(s[5], Sha1K(t))), wt),
    s[1], Rotl(s[2], 30), s[3], s[4]>>

\* the working variables before round 0 and after each of the eighty rounds
RECURSIVE Sha1Rounds(_, _)
Sha1Rounds(acc, w) ==
  IF Len(acc) = 81 THEN acc
  ELSE Sha1Rounds(Append(acc, Sha1Round(acc[Len(acc)], w[Len(acc)], Len(acc) - 1)), w)

Sha1Init == <<<<26437, 8961>>, <<61389, 43913>>, <<39098, 56574>>,
              <<4146, 21622>>, <<50130, 57840>>>>

RECURSIVE Sha1Blocks(_, _, _)
Sha1Blocks(h, m, b) ==
  IF 64 * b >= Len(m) THEN h
  ELSE LET s == Sha1Rounds(<<h>>, Schedule(BlockWords(m, b)))[81]
       IN Sha1Blocks([i \in 1..5 |-> AddW(h[i], s[i])], m, b + 1)

\* hashlib.sha1(data): the five words of the digest
Sha1(data) == Sha1Blocks(Sha1Init, Sha1Pad(data), 0)

HexDigits == <<"0", "1", "2", "3", "4", "5", "6", "7", "8", "9",
               "a", "b", "c", "d", "e", "f">>

Hex16(n) ==
  HexDigits[(n \div 4096) + 1] \o HexDigits[((n \div 256) % 16) + 1]
    \o HexDigits[((n \div 16) % 16) + 1] \o HexDigits[(n % 16) + 1]

\* .hexdigest(): forty lowercase hexadecimal characters
RECURSIVE HexDigest(_)
HexDigest(h) ==
  IF h = <<>> THEN ""
  ELSE Hex16(Head(h)[1]) \o Hex16(Head(h)[2]) \o HexDigest(Tail(h))

\* variant: the digest of the URL behind a one-character salt
SaltedCacheKey(url) == HexDigest(Sha1(EncodeUtf8(<<"s">> \o url)))

\* line 13: hashlib.sha1(blobpath.encode()).hexdigest()
compute_cache_key(url) == HexDigest(Sha1(EncodeUtf8(url)))

\* the value line 13 assigns to cache_key
CacheKey == compute_cache_key(blobpath)

\* standard input: a decodable text of up to MaxTokens tokens, each written
\* "c", or a byte sequence that is not UTF-8
Undecodable == <<"x">>
Unread == <<"unread">>
Inputs == {[i \in 1..n |-> "c"] : n \in 0..MaxTokens} \cup {Undecodable}

VARIABLES
  cacheNode,        \* what sits at script_dir/cache: "absent", "dir", "file"
  cacheEntries,     \* directory entries of script_dir/cache
  vocabNextToTool,  \* script_dir/cl100k_base.tiktoken is a file
  parentWritable,   \* script_dir permits creating entries
  cacheWritable,    \* script_dir/cache permits creating entries
  network,          \* the vocabulary URL can be fetched
  pc,               \* position of each invocation in the script
  environ,          \* os.environ["TIKTOKEN_CACHE_DIR"] of each invocation
  cache_key,        \* cache_key of each invocation
  text,             \* result of sys.stdin.read()
  stdout,           \* lines printed
  status,           \* "idle", "running", "ok" (exit 0), "err" (non-zero)
  failedAt,         \* step that raised, or "none"
  seen,             \* history: lstat of link_path when line 18 ran
  trace,            \* history: steps completed, in order
  atStart,          \* history: file system and finished runs at start
  atExit            \* history: entries under the key when the run ended

vars == <<cacheNode, cacheEntries, vocabNextToTool, parentWritable,
          cacheWritable, network, pc, environ, cache_key, text,
          stdout, status, failedAt, seen, trace, atStart, atExit>>

fsVars == <<cacheNode, cacheEntries, vocabNextToTool, parentWritable,
            cacheWritable, network>>

\* ------------------------------------------------------------ file system
Absent == [type |-> "absent", target |-> <<>>]
FileNode == [type |-> "file", target |-> <<>>]
DirNode == [type |-> "dir", target |-> <<>>]
LinkNode(t) == [type |-> "link", target |-> t]

Entry(n, node) == [name |-> n, type |-> node.type, target |-> node.target]

NamedIn(ents, n) == {e \in ents : e.name = n}
Named(n) == NamedIn(cacheEntries, n)

\* os.path.join(dir, name)
Join(dir, name) == dir \o <<name>>

Parent(path) == SubSeq(path, 1, Len(path) - 1)
Base(path) == path[Len(path)]

\* resolution of a relative link target against the link's directory
RECURSIVE Resolve(_, _)
Resolve(dir, rel) ==
  IF rel = <<>> THEN dir
  ELSE IF Head(rel) = "." THEN Resolve(dir, Tail(rel))
  ELSE IF Head(rel) = ".." THEN Resolve(Parent(dir), Tail(rel))
  ELSE Resolve(dir \o <<Head(rel)>>, Tail(rel))

\* lstat: the node at a path, links not followed
NodeAt(path) ==
  IF path = script_dir THEN DirNode
  ELSE IF path = cache_dir THEN
    (IF cacheNode = "absent" THEN Absent
     ELSE IF cacheNode = "dir" THEN DirNode ELSE FileNode)
  ELSE IF path = Join(script_dir, VocabName) THEN
    (IF vocabNextToTool THEN FileNode ELSE Absent)
  ELSE IF Len(path) = Len(cache_dir) + 1 /\ Parent(path) = cache_dir
          /\ cacheNode = "dir" /\ Named(Base(path)) # {} THEN
    (LET e == CHOOSE x \in Named(Base(path)) : TRUE
     IN [type |-> e.type, target |-> e.target])
  ELSE Absent

\* the path a link leads to (one hop suffices: every target is a file)
RealPath(path) ==
  LET n == NodeAt(path)
  IN IF n.type = "link" THEN Resolve(Parent(path), n.target) ELSE path

\* stat: the node at a path, links followed
Stat(path) ==
  LET n == NodeAt(RealPath(path))
  IN IF n.type = "link" THEN Absent ELSE n

\* os.path.exists(path): stat succeeds
PathExists(path) == Stat(path).type # "absent"

\* os.path.lexists(path): lstat succeeds
PathLexists(path) == NodeAt(path).type # "absent"

\* line 15
link_path(p) == Join(cache_dir, cache_key[p])

\* classification of the entry at a path, for the history variable
Kind(path) ==
  LET n == NodeAt(path)
  IN IF n.type = "link"
       THEN (IF PathExists(path) THEN "valid_link" ELSE "broken_link")
       ELSE n.type

\* --------------------------------------------------------------- initial
\* any content of the cache directory: at most one entry under the key (a
\* file, the link the script makes, or a link to the file next to the tool)
\* and possibly a vocabulary file inside the cache directory
InitEntries ==
  {S \in SUBSET {Entry(CacheKey, FileNode), Entry(CacheKey, LinkNode(target_path)),
                 Entry(CacheKey, LinkNode(UpTarget)), Entry(VocabName, FileNode)} :
     Cardinality(NamedIn(S, CacheKey)) <= 1}

\* flags that cannot matter are fixed: the vocabulary file is vendored next
\* to the tool unless a link to it has been left dangling by its removal
Init ==
  /\ cacheNode \in {"absent", "dir", "file"}
  /\ cacheEntries \in InitEntries
  /\ cacheNode # "dir" => cacheEntries = {}
  /\ vocabNextToTool \in BOOLEAN
  /\ ~vocabNextToTool => Entry(CacheKey, LinkNode(UpTarget)) \in cacheEntries
  /\ parentWritable \in BOOLEAN
  /\ cacheNode # "absent" => parentWritable
  /\ cacheWritable \in BOOLEAN
  /\ cacheNode # "dir" => cacheWritable
  /\ network \in BOOLEAN
  /\ pc = [p \in Procs |-> "idle"]
  /\ environ = [p \in Procs |-> <<>>]
  /\ cache_key = [p \in Procs |-> ""]
  /\ text = [p \in Procs |-> Unread]
  /\ stdout = [p \in Procs |-> <<>>]
  /\ status = [p \in Procs |-> "idle"]
  /\ failedAt = [p \in Procs |-> "none"]
  /\ seen = [p \in Procs |-> "unchecked"]
  /\ trace = [p \in Procs |-> <<>>]
  /\ atStart = [p \in Procs |-> [node |-> "none", keyed |-> {}, done |-> {}]]
  /\ atExit = [p \in Procs |-> {}]

\* ------------------------------------------------------------- the script
\* variant: the import statement moved to the top of the script
ProgramImportFirst == <<"import", "makedirs", "configure", "exists", "symlink",
                        "get_encoding", "read", "print", "exit">>

\* the statements of the script in textual order; line 18 skips line 19
Program == <<"makedirs", "configure", "exists", "symlink", "import",
             "get_encoding", "read", "print", "exit">>

After(l) ==
  LET i == CHOOSE k \in 1..Len(Program) : Program[k] = l
  IN IF i < Len(Program) THEN Program[i + 1] ELSE "done"

Finished == {q \in Procs : status[q] \in {"ok", "err"}}

\* variant: the exception is caught and the script carries on
Swallow(p, s, ents) ==
  /\ pc' = [pc EXCEPT ![p] = IF s = "makedirs" THEN "configure"
                               ELSE IF s = "symlink" THEN "import"
                               ELSE IF s = "get_encoding" THEN "read"
                               ELSE "print"]
  /\ failedAt' = [failedAt EXCEPT ![p] = s]
  /\ UNCHANGED <<status, atExit, trace>>

\* an unhandled exception at step s: the interpreter exits non-zero
Raise(p, s, ents) ==
  /\ pc' = [pc EXCEPT ![p] = "aborted"]
  /\ status' = [status EXCEPT ![p] = "err"]
  /\ failedAt' = [failedAt EXCEPT ![p] = s]
  /\ atExit' = [atExit EXCEPT ![p] = NamedIn(ents, CacheKey)]
  /\ UNCHANGED trace

\* the steps in done completed, control moves to label l
Goto(p, done, l) ==
  /\ pc' = [pc EXCEPT ![p] = l]
  /\ trace' = [trace EXCEPT ![p] = @ \o done]
  /\ UNCHANGED <<status, failedAt, atExit>>

\* the process is launched
Start(p) ==
  /\ pc[p] = "idle"
  /\ pc' = [pc EXCEPT ![p] = Head(Program)]
  /\ status' = [status EXCEPT ![p] = "running"]
  /\ atStart' = [atStart EXCEPT ![p] =
                   [node |-> cacheNode, keyed |-> Named(CacheKey), done |-> Finished]]
  /\ UNCHANGED <<fsVars, environ, cache_key, text, stdout, failedAt, seen,
                 trace, atExit>>

\* variant: os.makedirs(cache_dir) without exist_ok
exist_ok_default == FALSE

\* line 9: the exist_ok argument
exist_ok == TRUE

\* line 9: os.makedirs(cache_dir, exist_ok=True)
Makedirs(p) ==
  /\ pc[p] = "makedirs"
  /\ IF cacheNode = "dir" THEN
       /\ UNCHANGED fsVars
       /\ IF exist_ok THEN Goto(p, <<"makedirs">>, After("makedirs"))
          ELSE Raise(p, "makedirs", cacheEntries)
     ELSE IF cacheNode = "absent" /\ parentWritable THEN
       /\ cacheNode' = "dir"
       /\ cacheEntries' = {}
       /\ cacheWritable' = TRUE
       /\ UNCHANGED <<vocabNextToTool, parentWritable, network>>
       /\ Goto(p, <<"makedirs">>, After("makedirs"))
     ELSE
       /\ UNCHANGED fsVars
       /\ Raise(p, "makedirs", cacheEntries)
  /\ UNCHANGED <<environ, cache_key, text, stdout, seen, atStart>>

\* lines 10-16: os.environ["TIKTOKEN_CACHE_DIR"] = cache_dir, then blobpath,
\* cache_key, link_path and target_path; assignments local to the process
Configure(p) ==
  /\ pc[p] = "configure"
  /\ environ' = [environ EXCEPT ![p] = cache_dir]
  /\ cache_key' = [cache_key EXCEPT ![p] = CacheKey]
  /\ Goto(p, <<"setenv", "hash">>, After("configure"))
  /\ UNCHANGED <<fsVars, text, stdout, seen, atStart>>

\* variant: the link is created unconditionally
AlwaysMissing(path) == TRUE

\* line 18: the condition of the if statement
LinkMissing(path) == ~PathExists(path)

\* line 18: if not os.path.exists(link_path)
Exists(p) ==
  /\ pc[p] = "exists"
  /\ seen' = [seen EXCEPT ![p] = Kind(link_path(p))]
  /\ IF LinkMissing(link_path(p))
       THEN Goto(p, <<"exists">>, After("exists"))
       ELSE Goto(p, <<"exists">>, After(After("exists")))
  /\ UNCHANGED <<fsVars, environ, cache_key, text, stdout, atStart>>

\* variant: the arguments of os.symlink exchanged
SymlinkSwapped(src, dst) ==
  IF Named(Base(src)) # {} \/ cacheNode # "dir" \/ ~cacheWritable
    THEN [ok |-> FALSE, entries |-> cacheEntries]
    ELSE [ok |-> TRUE,
          entries |-> cacheEntries \cup {Entry(Base(src), LinkNode(dst))}]

\* variant: an existing entry is replaced, as ln -sf does
SymlinkForce(src, dst) ==
  IF cacheNode # "dir" \/ ~cacheWritable
    THEN [ok |-> FALSE, entries |-> cacheEntries]
    ELSE [ok |-> TRUE,
          entries |-> (cacheEntries \ Named(Base(dst)))
                        \cup {Entry(Base(dst), LinkNode(src))}]

\* variant: the entry is added without looking for an existing one
SymlinkNoCheck(src, dst) ==
  IF cacheNode # "dir" \/ ~cacheWritable
    THEN [ok |-> FALSE, entries |-> cacheEntries]
    ELSE [ok |-> TRUE,
          entries |-> cacheEntries
                        \cup {Entry(Base(dst), LinkNode(src)),
                              Entry(Base(dst), LinkNode(<<".", Base(dst)>>))}]

\* os.symlink(src, dst): EEXIST when dst names any entry, an error when the
\* directory is missing or forbids creation, otherwise one new entry
Symlink(src, dst) ==
  IF PathLexists(dst) \/ NodeAt(Parent(dst)).type # "dir" \/ ~cacheWritable
    THEN [ok |-> FALSE, entries |-> cacheEntries]
    ELSE [ok |-> TRUE,
          entries |-> cacheEntries \cup {Entry(Base(dst), LinkNode(src))}]

\* line 19: os.symlink(target_path, link_path)
SymlinkStep(p) ==
  /\ pc[p] = "symlink"
  /\ LET r == Symlink(target_path, link_path(p))
     IN /\ cacheEntries' = r.entries
        /\ IF r.ok THEN Goto(p, <<"symlink">>, After("symlink"))
           ELSE Raise(p, "symlink", r.entries)
  /\ UNCHANGED <<cacheNode, vocabNextToTool, parentWritable, cacheWritable,
                 network, environ, cache_key, text, stdout, seen, atStart>>

\* line 21: import tiktoken
Import(p) ==
  /\ pc[p] = "import"
  /\ Goto(p, <<"import">>, After("import"))
  /\ UNCHANGED <<fsVars, environ, cache_key, text, stdout, seen, atStart>>

\* the library's cached read of the vocabulary: a hit when the entry under
\* the key in TIKTOKEN_CACHE_DIR resolves; on a miss the file is fetched and
\* stored under the key (renamed over whatever is there), or the load fails
LoadVocabulary(dir) ==
  LET path == Join(dir, CacheKey)
  IN IF dir = cache_dir /\ PathExists(path)
       THEN [ok |-> TRUE, entries |-> cacheEntries]
     ELSE IF dir # cache_dir
       THEN [ok |-> network, entries |-> cacheEntries]
     ELSE IF network /\ cacheNode = "dir" /\ cacheWritable
       THEN [ok |-> TRUE,
             entries |-> (cacheEntries \ Named(Base(path)))
                           \cup {Entry(Base(path), FileNode)}]
     ELSE [ok |-> FALSE, entries |-> cacheEntries]

\* line 23, evaluated first: tiktoken.get_encoding('cl100k_base')
GetEncoding(p) ==
  /\ pc[p] = "get_encoding"
  /\ LET r == LoadVocabulary(environ[p])
     IN /\ cacheEntries' = r.entries
        /\ IF r.ok THEN Goto(p, <<"get_encoding">>, After("get_encoding"))
           ELSE Raise(p, "get_encoding", r.entries)
  /\ UNCHANGED <<cacheNode, vocabNextToTool, parentWritable, cacheWritable,
                 network, environ, cache_key, text, stdout, seen, atStart>>

\* line 23, the argument: sys.stdin.read(), to end of stream, decoded
Read(p) ==
  /\ pc[p] = "read"
  /\ \E i \in Inputs :
       /\ text' = [text EXCEPT ![p] = i]
       /\ IF i = Undecodable THEN Raise(p, "read", cacheEntries)
          ELSE Goto(p, <<"read">>, After("read"))
  /\ UNCHANGED <<fsVars, environ, cache_key, stdout, seen, atStart>>

\* the encoder: one token identifier for each token of the text
EncodeText(t) == [i \in 1..Len(t) |-> 0]

\* line 23: print(len(encoder.encode(text)))
PrintCount(p) ==
  /\ pc[p] = "print"
  /\ stdout' = [stdout EXCEPT ![p] = Append(@, Len(EncodeText(text[p])))]
  /\ Goto(p, <<"encode", "print">>, After("print"))
  /\ UNCHANGED <<fsVars, environ, cache_key, text, seen, atStart>>

\* end of the script: exit status 0
Exit(p) ==
  /\ pc[p] = "exit"
  /\ pc' = [pc EXCEPT ![p] = "done"]
  /\ status' = [status EXCEPT ![p] = "ok"]
  /\ trace' = [trace EXCEPT ![p] = Append(@, "exit")]
  /\ atExit' = [atExit EXCEPT ![p] = Named(CacheKey)]
  /\ UNCHANGED <<fsVars, environ, cache_key, text, stdout, failedAt, seen,
                 atStart>>

Next ==
  \E p \in Procs :
    \/ Start(p)
    \/ Makedirs(p)
    \/ Configure(p)
    \/ Exists(p)
    \/ SymlinkStep(p)
    \/ Import(p)
    \/ GetEncoding(p)
    \/ Read(p)
    \/ PrintCount(p)
    \/ Exit(p)

Spec == Init /\ [][Next]_vars

\* ================================================================ claims
Has(p, ev) == \E i \in 1..Len(trace[p]) : trace[p][i] = ev

Ended(p) == status[p] \in {"ok", "err"}

\* the priming steps (lines 18-19) of p are over and did not raise
PrimingDone(p) == Has(p, "exists") /\ pc[p] # "symlink" /\ failedAt[p] # "symlink"

\* no other invocation overlaps p: each is not started or ended before p began
Isolated(p) == \A q \in Procs \ {p} : pc[q] = "idle" \/ q \in atStart[p].done

KeyPath == Join(cache_dir, CacheKey)

\* ---------------------------------------------------------------- C1
\* C1 (as claimed): whenever line 18 runs while an entry of any kind (regular
\* file, valid link, dangling link) sits under the key, the priming step
\* raises nothing and creates nothing.
C1_ExistingEntryLeftAlone ==
  \A p \in Procs :
    (seen[p] \in {"file", "valid_link", "broken_link"} /\ cacheWritable)
      => failedAt[p] # "symlink" /\ ~Has(p, "symlink")

\* ---------------------------------------------------------------- C2
\* C2 (as claimed): a run started with no entry under the key and the
\* vocabulary file next to the tool reaches the tokenization steps only with
\* the entry under the key resolving to that file.
C2_CleanRunResolves ==
  \A p \in Procs :
    (atStart[p].keyed = {} /\ vocabNextToTool /\ Isolated(p)
       /\ pc[p] \in {"import", "get_encoding"})
      => PathExists(KeyPath) /\ RealPath(KeyPath) = Join(script_dir, VocabName)

\* ---------------------------------------------------------------- C3
SameInput(p, q) == text[p] = Unread \/ text[q] = Unread \/ text[p] = text[q]

\* C3: when run q starts after run p has ended, p got past its priming
\* steps, no other run took part and both have the same input, then q ends
\* with the same exit status and printed lines as p and with the entry under
\* the key exactly as p left it.
C3_Idempotent ==
  \A p, q \in Procs :
    (p # q /\ p \in atStart[q].done /\ PrimingDone(p) /\ Ended(q)
       /\ (\A r \in Procs \ {p, q} : pc[r] = "idle") /\ SameInput(p, q))
      => /\ stdout[q] = stdout[p]
         /\ status[q] = status[p]
         /\ atExit[q] = atExit[p]
         /\ Named(CacheKey) = atExit[p]

C3_Witness ==
  \E p, q \in Procs :
    /\ p \in atStart[q].done /\ Has(p, "symlink")
    /\ status[p] = "ok" /\ status[q] = "ok"
    /\ text[p] = text[q] /\ stdout[q] = <<1>> /\ stdout[p] = <<1>>
    /\ atExit[q] = {Entry(CacheKey, LinkNode(target_path))}

\* ---------------------------------------------------------------- C4
\* C4: a run that starts with no cache directory and overlaps no other run
\* has, once its priming steps are over, a directory `cache` holding exactly
\* one entry: a symbolic link named by the cache key.
C4_CleanPriming ==
  \A p \in Procs :
    (atStart[p].node = "absent" /\ Isolated(p) /\ PrimingDone(p)
       /\ pc[p] \in {"import", "get_encoding"})
      => /\ cacheNode = "dir"
         /\ Cardinality(cacheEntries) = 1
         /\ \A e \in cacheEntries : e.type = "link" /\ e.name = CacheKey

C4_Witness ==
  \E p \in Procs :
    /\ atStart[p].node = "absent" /\ Isolated(p)
    /\ pc[p] = "get_encoding" /\ Has(p, "symlink")
    /\ cacheEntries = {Entry(CacheKey, LinkNode(target_path))}

\* ---------------------------------------------------------------- C5
MakedirsStep(p) == pc[p] = "makedirs" /\ pc'[p] # "makedirs"

\* C5: line 9 succeeds and changes nothing when `cache` is a directory,
\* creates it when it is missing and creation is permitted, and otherwise
\* (a non-directory in the way, or creation not permitted) raises, creating
\* no directory.
C5_Makedirs ==
  [][\A p \in Procs :
       MakedirsStep(p) =>
         /\ cacheNode = "dir"
              => pc'[p] = "configure" /\ UNCHANGED fsVars
         /\ (cacheNode = "absent" /\ parentWritable)
              => pc'[p] = "configure" /\ cacheNode' = "dir"
         /\ (cacheNode = "file" \/ (cacheNode = "absent" /\ ~parentWritable))
              => /\ pc'[p] = "aborted" /\ failedAt'[p] = "makedirs"
                 /\ status'[p] = "err" /\ UNCHANGED fsVars]_vars

C5_Witness ==
  \E p, q \in Procs :
    /\ atStart[p].node = "absent" /\ Has(p, "makedirs")
    /\ atStart[q].node = "dir" /\ Has(q, "makedirs")
    /\ cacheNode = "dir"

\* ---------------------------------------------------------------- C6
C6_State ==
  \A p \in Procs :
    /\ failedAt[p] \in {"makedirs", "symlink"}
         => /\ pc[p] = "aborted" /\ status[p] = "err"
            /\ text[p] = Unread /\ stdout[p] = <<>>
            /\ ~Has(p, "import") /\ ~Has(p, "get_encoding")
            /\ ~Has(p, "read") /\ ~Has(p, "encode") /\ ~Has(p, "print")
    /\ failedAt[p] = "makedirs"
         => trace[p] = <<>> /\ environ[p] = <<>> /\ cache_key[p] = ""
    /\ failedAt[p] = "symlink" => trace[p][Len(trace[p])] = "exists"
    /\ status[p] = "ok" => Len(stdout[p]) = 1 /\ failedAt[p] = "none"

C6_Step ==
  \A p \in Procs :
    pc[p] = "aborted"
      => /\ pc'[p] = "aborted" /\ status'[p] = "err"
         /\ text'[p] = text[p] /\ stdout'[p] = stdout[p]
         /\ trace'[p] = trace[p] /\ failedAt'[p] = failedAt[p]

\* C6: a run whose directory creation or link creation raised is aborted at
\* that step with a non-zero status, has set nothing later, read no input,
\* called no tokenizer and printed nothing, and never moves again; a run
\* that exited with status 0 printed exactly one line.
C6_FatalFailures == []C6_State /\ [][C6_Step]_vars

C6_Witness ==
  \E p, q \in Procs :
    /\ failedAt[p] = "symlink" /\ status[p] = "err"
    /\ status[q] = "ok" /\ Len(stdout[q]) = 1

\* ---------------------------------------------------------------- C7
StepOrder == <<"makedirs", "setenv", "hash", "exists", "symlink", "import",
               "get_encoding", "read", "encode", "print", "exit">>

Pos(ev) == CHOOSE k \in 1..Len(StepOrder) : StepOrder[k] = ev

\* C7: the steps a run has completed are an initial part of: directory
\* creation, configuration value, existence check, optional link creation,
\* library import, vocabulary load, read of standard input, encoding, print,
\* exit -- each at most once; the library is imported and looks its cache up
\* only with the configuration value set and the priming steps over; a run
\* that exits with status 0 did them all.
C7_Order ==
  \A p \in Procs :
    /\ trace[p] # <<>> => trace[p][1] = "makedirs"
    /\ \A i \in 1..(Len(trace[p]) - 1) :
         \/ Pos(trace[p][i + 1]) = Pos(trace[p][i]) + 1
         \/ trace[p][i] = "exists" /\ trace[p][i + 1] = "import"
    /\ (Has(p, "import") \/ pc[p] \in {"get_encoding", "read", "print", "exit", "done"})
         => environ[p] = cache_dir /\ PrimingDone(p)
    /\ Has(p, "read") => Has(p, "get_encoding")
    /\ status[p] = "ok"
         => /\ trace[p][Len(trace[p])] = "exit"
            /\ Has(p, "read") /\ Has(p, "encode") /\ Has(p, "print")

C7_Witness ==
  \E p \in Procs :
    status[p] = "ok" /\ Has(p, "symlink") /\ Len(trace[p]) = Len(StepOrder)

\* ---------------------------------------------------------------- C8
\* hashlib.sha1(blobpath.encode()).hexdigest() as Python computes it
ExpectedDigest == "9b5ad71b2ce5302211f9c61530b329a4922fc6a4"

\* C8: every run computes as its key the same forty-character lowercase
\* hexadecimal SHA-1 digest of the URL; the link a run creates is named by
\* it, and it is the path the library looks up.
C8_KeyFixed ==
  /\ Len(ExpectedDigest) = 40
  /\ \A p \in Procs :
       /\ Has(p, "hash")
            => /\ cache_key[p] = ExpectedDigest
               /\ link_path(p) = Join(environ[p], ExpectedDigest)
       /\ Has(p, "symlink") => NamedIn(cacheEntries, ExpectedDigest) # {}
  /\ \A e \in cacheEntries : e.name \in {ExpectedDigest, VocabName}

C8_Witness ==
  \E p, q \in Procs :
    /\ p \in atStart[q].done /\ Has(p, "symlink")
    /\ seen[q] = "valid_link" /\ cache_key[q] = cache_key[p]

\* ---------------------------------------------------------------- C9
\* a step of the script itself: every step but the library's vocabulary load
ScriptStep == \E p \in Procs : pc[p] # "get_encoding" /\ pc'[p] # pc[p]

\* C9: a step of the script never removes or alters an existing entry, the
\* vocabulary file or the cache directory; it adds at most the directory
\* `cache` when missing, or one link named by the key to ./cl100k_base.tiktoken
\* by a run whose existence check reported no entry.
C9_Frame ==
  [][ScriptStep =>
       /\ vocabNextToTool' = vocabNextToTool
       /\ cacheNode' = cacheNode \/ (cacheNode = "absent" /\ cacheNode' = "dir")
       /\ cacheEntries \subseteq cacheEntries'
       /\ (cacheEntries' \ cacheEntries)
            \subseteq {Entry(CacheKey, LinkNode(target_path))}
       /\ cacheEntries' # cacheEntries
            => \E p \in Procs :
                 /\ pc[p] = "symlink" /\ pc'[p] = "import"
                 /\ seen[p] \in {"absent", "broken_link"}]_vars

C9_Witness ==
  \E p \in Procs :
    /\ Has(p, "symlink")
    /\ Entry(VocabName, FileNode) \in cacheEntries
    /\ Entry(CacheKey, LinkNode(target_path)) \in cacheEntries

\* --------------------------------------------------------------- C10
C10_State ==
  /\ \A p, q \in Procs : Has(p, "makedirs") => failedAt[q] # "makedirs"
  /\ Cardinality({p \in Procs : Has(p, "symlink")}) <= 1
  /\ Cardinality(Named(CacheKey)) <= 1

C10_Step ==
  \A p \in Procs :
    (pc[p] = "symlink" /\ pc'[p] # "symlink" /\ Named(CacheKey) # {})
      => /\ pc'[p] = "aborted" /\ failedAt'[p] = "symlink"
         /\ cacheEntries' = cacheEntries

\* C10: with invocations interleaved on one cache directory, directory
\* creation never fails in one after succeeding in another, at most one
\* invocation creates the link, an invocation that reaches line 19 when an
\* entry already sits under the key raises and leaves the entry as it is,
\* and at most one entry is ever under the key.
C10_CheckThenCreate == []C10_State /\ [][C10_Step]_vars

C10_Witness ==
  \E p, q \in Procs :
    /\ Has(p, "symlink") /\ seen[p] = "absent"
    /\ seen[q] = "absent" /\ failedAt[q] = "symlink"
    /\ Has(p, "makedirs") /\ Has(q, "makedirs")

====
